---- MODULE Spec2Model ----
(***************************************************************************)
(* A model of airflow/assets/__init__.py: the asset URI sanitizer          *)
(* (_sanitize_uri) and the asset condition algebra (Asset, AssetAlias,     *)
(* AssetAny, AssetAll, _AssetAliasCondition).                              *)
(*                                                                         *)
(* Two specifications share the module:                                    *)
(*   Spec     the condition algebra: building conditions with the          *)
(*            constructors and the | and & operators, querying them, and   *)
(*            the alias catalog changing underneath;                       *)
(*   SpecUri  the URI sanitizer applied to raw strings, applied again to   *)
(*            its own output, and Asset construction from a raw uri.       *)
(*                                                                         *)
(* Python strings that the code only compares or interpolates are TLA+     *)
(* strings; strings that the code parses (URIs) are sequences of           *)
(* one-character strings.                                                  *)
(***************************************************************************)
EXTENDS Naturals, Sequences, FiniteSets, TLC

VARIABLES
    catalog,     \* the AssetAliasModel table: alias name -> its assets, or NoRow
    resolveLog,  \* the names expand_alias_to_assets was called with, in order
    cur,         \* the condition object the program holds (NoObject before any)
    op,          \* the last operation performed
    args,        \* its operands (constructor arguments, or <<self, other>>)
    recv,        \* the receiver of the last query
    inp,         \* the last query's input
    out,         \* the last operation's result
    raw,         \* SpecUri: the parts of the raw uri string under test
    py,          \* SpecUri: which urlunsplit the interpreter ships
    stage,       \* SpecUri: how far the run is
    canon,       \* SpecUri: _sanitize_uri(raw)
    twin,        \* SpecUri: _sanitize_uri of raw with its query pairs reordered
    again,       \* SpecUri: _sanitize_uri(canon)
    asset        \* SpecUri: the Asset constructed from raw, if any

algebraVars == <<catalog, resolveLog, cur, op, args, recv, inp, out>>
uriVars == <<raw, py, stage, canon, twin, again, asset>>
vars == <<catalog, resolveLog, cur, op, args, recv, inp, out,
          raw, py, stage, canon, twin, again, asset>>

(***************************************************************************)
(* Bounds.                                                                 *)
(***************************************************************************)
\* Spec: the largest condition tree (counted in objects) the program builds
MaxSize == 4
\* SpecOps: the largest condition tree the operators build
MaxNest == 5
\* SpecQuery: the largest condition tree a query is sent to
MaxTree == 4
\* the most key=value pairs in a raw uri's query
MaxPairs == 2

(***************************************************************************)
(* Objects of the condition algebra.  Every object is a record             *)
(* [kind, name, uri, objects]; kind is the Python class.                   *)
(***************************************************************************)
NoObject == [kind |-> "None", name |-> "", uri |-> "", objects |-> <<>>]

\* a value that is not a BaseAsset (an int, a str, ...)
NotAnAsset == [kind |-> "int", name |-> "", uri |-> "", objects |-> <<>>]

Asset(name, uri) == [kind |-> "Asset", name |-> name, uri |-> uri, objects |-> <<>>]

AssetAlias(name) == [kind |-> "AssetAlias", name |-> name, uri |-> "", objects |-> <<>>]

\* isinstance(o, BaseAsset)
IsBaseAsset(o) ==
    o.kind \in {"Asset", "AssetAlias", "AssetAny", "AssetAll", "_AssetAliasCondition"}

\* isinstance(o, AssetAny): _AssetAliasCondition subclasses AssetAny
IsAssetAny(o) == o.kind \in {"AssetAny", "_AssetAliasCondition"}

\* the table row is absent
NoRow == <<NoObject>>

\* expand_alias_to_assets(name): the row's assets, [] without a row
expand_alias_to_assets(name) ==
    IF catalog[name] = NoRow THEN <<>> ELSE catalog[name]

\* _AssetAliasCondition(name)
AssetAliasCondition(name) ==
    [kind |-> "_AssetAliasCondition", name |-> name, uri |-> "",
     objects |-> expand_alias_to_assets(name)]

\* the alias names among objects[i..], in order: one resolver call each
RECURSIVE AliasNamesFrom(_, _)
AliasNamesFrom(objects, i) ==
    IF i > Len(objects) THEN <<>>
    ELSE IF objects[i].kind = "AssetAlias"
         THEN <<objects[i].name>> \o AliasNamesFrom(objects, i + 1)
         ELSE AliasNamesFrom(objects, i + 1)

\* _AssetBooleanCondition.__init__ resolving before it checks the types
ConditionInitResolvesFirst(kind, objects) ==
    IF \E i \in 1..Len(objects) : ~IsBaseAsset(objects[i])
    THEN [err |-> "TypeError", obj |-> NoObject,
          calls |-> AliasNamesFrom(objects, 1)]
    ELSE [err |-> "",
          obj |-> [kind |-> kind, name |-> "", uri |-> "",
                   objects |-> [i \in 1..Len(objects) |->
                       IF objects[i].kind = "AssetAlias"
                       THEN AssetAliasCondition(objects[i].name)
                       ELSE objects[i]]],
          calls |-> AliasNamesFrom(objects, 1)]

\* AssetAny(*objects) / AssetAll(*objects): the raised error if any, the new
\* object, and the resolver calls made on the way
ConditionInit(kind, objects) ==
    IF \E i \in 1..Len(objects) : ~IsBaseAsset(objects[i])
    THEN [err |-> "TypeError", obj |-> NoObject, calls |-> <<>>]
    ELSE [err |-> "",
          obj |-> [kind |-> kind, name |-> "", uri |-> "",
                   objects |-> [i \in 1..Len(objects) |->
                       IF objects[i].kind = "AssetAlias"
                       THEN AssetAliasCondition(objects[i].name)
                       ELSE objects[i]]],
          calls |-> AliasNamesFrom(objects, 1)]

\* a binary operator returning NotImplemented: the interpreter finds no
\* reflected method on the other operand and raises TypeError
NotImplemented == [err |-> "TypeError", obj |-> NoObject, calls |-> <<>>]

\* BaseAsset.__or__
BaseAsset__or__(self, other) ==
    IF ~IsBaseAsset(other) THEN NotImplemented
    ELSE ConditionInit("AssetAny", <<self, other>>)

\* BaseAsset.__and__
BaseAsset__and__(self, other) ==
    IF ~IsBaseAsset(other) THEN NotImplemented
    ELSE ConditionInit("AssetAll", <<self, other>>)

\* AssetAny.__or__ turning the stored alias conditions back into aliases
AssetAny__or__ReResolves(self, other) ==
    IF ~IsBaseAsset(other) THEN NotImplemented
    ELSE ConditionInit("AssetAny",
             [i \in 1..Len(self.objects) |->
                 IF self.objects[i].kind = "_AssetAliasCondition"
                 THEN AssetAlias(self.objects[i].name)
                 ELSE self.objects[i]] \o <<other>>)

\* AssetAny.__or__
AssetAny__or__(self, other) ==
    IF ~IsBaseAsset(other) THEN NotImplemented
    ELSE ConditionInit("AssetAny", self.objects \o <<other>>)

\* AssetAll.__and__
AssetAll__and__(self, other) ==
    IF ~IsBaseAsset(other) THEN NotImplemented
    ELSE ConditionInit("AssetAll", self.objects \o <<other>>)

\* self | other, by the class of self
Or(self, other) ==
    IF IsAssetAny(self) THEN AssetAny__or__(self, other)
    ELSE BaseAsset__or__(self, other)

\* self & other, by the class of self
And(self, other) ==
    IF self.kind = "AssetAll" THEN AssetAll__and__(self, other)
    ELSE BaseAsset__and__(self, other)

\* the number of objects in a condition tree
RECURSIVE Size(_)
RECURSIVE SizeFrom(_, _)
Size(o) == 1 + SizeFrom(o.objects, 1)
SizeFrom(objects, i) ==
    IF i > Len(objects) THEN 0 ELSE Size(objects[i]) + SizeFrom(objects, i + 1)

(***************************************************************************)
(* The queries.                                                            *)
(***************************************************************************)
\* Asset.evaluate defaulting to True: statuses.get(self.uri, True)
AssetEvaluateDefaultTrue(self, statuses) ==
    IF self.uri \in DOMAIN statuses THEN statuses[self.uri] ELSE TRUE

\* Asset.evaluate: statuses.get(self.uri, False)
AssetEvaluate(self, statuses) ==
    IF self.uri \in DOMAIN statuses THEN statuses[self.uri] ELSE FALSE

\* evaluate, by the class of self; any() and all() consume the generator of
\* the children's results from the left and stop at the first decisive one
RECURSIVE evaluate(_, _)
RECURSIVE agg_any(_, _, _)
RECURSIVE agg_all(_, _, _)
evaluate(self, statuses) ==
    IF self.kind = "Asset" THEN AssetEvaluate(self, statuses)
    ELSE IF IsAssetAny(self) THEN agg_any(self.objects, statuses, 1)
    ELSE agg_all(self.objects, statuses, 1)
agg_any(objects, statuses, i) ==
    IF i > Len(objects) THEN FALSE
    ELSE IF evaluate(objects[i], statuses) THEN TRUE
    ELSE agg_any(objects, statuses, i + 1)
agg_all(objects, statuses, i) ==
    IF i > Len(objects) THEN TRUE
    ELSE IF ~evaluate(objects[i], statuses) THEN FALSE
    ELSE agg_all(objects, statuses, i + 1)

\* the inner loop without the seen check
RECURSIVE YieldAll(_, _, _)
YieldAll(st, ys, j) ==
    IF j > Len(ys) THEN st
    ELSE YieldAll([yielded |-> Append(st.yielded, ys[j]),
                   seen |-> st.seen \cup {ys[j].k}], ys, j + 1)

\* the inner loop of _AssetBooleanCondition.iter_assets over one child's
\* pairs ys[j..]: st = [yielded, seen]
RECURSIVE YieldUnseen(_, _, _)
YieldUnseen(st, ys, j) ==
    IF j > Len(ys) THEN st
    ELSE IF ys[j].k \in st.seen THEN YieldUnseen(st, ys, j + 1)
    ELSE YieldUnseen([yielded |-> Append(st.yielded, ys[j]),
                      seen |-> st.seen \cup {ys[j].k}], ys, j + 1)

\* iter_assets, by the class of self: the (uri, asset) pairs yielded
RECURSIVE iter_assets(_)
RECURSIVE iter_assets_loop(_, _, _)
iter_assets(self) ==
    IF self.kind = "Asset" THEN <<[k |-> self.uri, v |-> self]>>
    ELSE IF self.kind = "AssetAlias" THEN <<>>
    ELSE iter_assets_loop([yielded |-> <<>>, seen |-> {}], self.objects, 1).yielded
iter_assets_loop(st, objects, i) ==
    IF i > Len(objects) THEN st
    ELSE iter_assets_loop(YieldUnseen(st, iter_assets(objects[i]), 1), objects, i + 1)

\* iter_asset_aliases, by the class of self: the (name, alias) pairs yielded
RECURSIVE iter_asset_aliases(_)
RECURSIVE iter_asset_aliases_loop(_, _)
iter_asset_aliases(self) ==
    IF self.kind = "Asset" THEN <<>>
    ELSE IF self.kind = "AssetAlias" THEN <<[k |-> self.name, v |-> self]>>
    ELSE IF self.kind = "_AssetAliasCondition"
         THEN <<[k |-> self.name, v |-> AssetAlias(self.name)]>>
    ELSE iter_asset_aliases_loop(self.objects, 1)
iter_asset_aliases_loop(objects, i) ==
    IF i > Len(objects) THEN <<>>
    ELSE iter_asset_aliases(objects[i]) \o iter_asset_aliases_loop(objects, i + 1)

DagDependency(source, target, dependency_type, dependency_id) ==
    [source |-> source, target |-> target,
     dependency_type |-> dependency_type, dependency_id |-> dependency_id]

\* Python's  x or default  on strings
OrDefault(x, default) == IF x = "" THEN default ELSE x

\* Asset.iter_dag_dependencies
AssetDagDependencies(self, source, target) ==
    <<DagDependency(OrDefault(source, "asset"), OrDefault(target, "asset"),
                    "asset", self.uri)>>

\* AssetAlias.iter_dag_dependencies
AssetAliasDagDependencies(self, source, target) ==
    <<DagDependency(OrDefault(source, "asset-alias"), OrDefault(target, "asset-alias"),
                    "asset-alias", self.name)>>

\* the alias edge of a resolved asset, its target defaulting to the source
AliasEdgeTargetFromSource(self, uri, source, target) ==
    DagDependency(OrDefault(source, "asset:" \o uri),
                  OrDefault(target, OrDefault(source, "asset:" \o uri)),
                  "asset-alias", self.name)

\* the alias edge of a resolved asset
AliasEdge(self, uri, source, target) ==
    DagDependency(OrDefault(source, "asset:" \o uri),
                  OrDefault(target, "asset:" \o uri),
                  "asset-alias", self.name)

\* the single edge of an alias without resolved assets, mislabelled
UnresolvedAliasEdgesAsAsset(self, source, target) ==
    <<DagDependency(OrDefault(source, "asset"), OrDefault(target, "asset"),
                    "asset", self.name)>>

\* the single edge of an alias without resolved assets
UnresolvedAliasEdges(self, source, target) ==
    <<DagDependency(OrDefault(source, "asset-alias"), OrDefault(target, "asset-alias"),
                    "asset-alias", self.name)>>

\* _AssetAliasCondition.iter_dag_dependencies: two edges per resolved asset
RECURSIVE ResolvedAliasEdges(_, _, _, _)
ResolvedAliasEdges(self, source, target, i) ==
    IF i > Len(self.objects) THEN <<>>
    ELSE LET uri == self.objects[i].uri IN
         << DagDependency(
                IF source # "" THEN "asset-alias:" \o self.name ELSE "asset",
                IF source # "" THEN "asset" ELSE "asset-alias:" \o self.name,
                "asset", uri),
            AliasEdge(self, uri, source, target) >>
         \o ResolvedAliasEdges(self, source, target, i + 1)

AliasConditionDagDependencies(self, source, target) ==
    IF self.objects # <<>> THEN ResolvedAliasEdges(self, source, target, 1)
    ELSE UnresolvedAliasEdges(self, source, target)

\* iter_dag_dependencies, by the class of self
RECURSIVE iter_dag_dependencies(_, _, _)
RECURSIVE iter_dag_dependencies_loop(_, _, _, _)
iter_dag_dependencies(self, source, target) ==
    IF self.kind = "Asset" THEN AssetDagDependencies(self, source, target)
    ELSE IF self.kind = "AssetAlias" THEN AssetAliasDagDependencies(self, source, target)
    ELSE IF self.kind = "_AssetAliasCondition"
         THEN AliasConditionDagDependencies(self, source, target)
    ELSE iter_dag_dependencies_loop(self.objects, source, target, 1)
iter_dag_dependencies_loop(objects, source, target, i) ==
    IF i > Len(objects) THEN <<>>
    ELSE iter_dag_dependencies(objects[i], source, target)
         \o iter_dag_dependencies_loop(objects, source, target, i + 1)

\* as_expression, by the class of self: the uri, {"alias": name},
\* {"any": [...]} or {"all": [...]}
RECURSIVE as_expression(_)
as_expression(self) ==
    IF self.kind = "Asset" THEN [tag |-> "uri", val |-> self.uri, items |-> <<>>]
    ELSE IF self.kind = "_AssetAliasCondition"
         THEN [tag |-> "alias", val |-> self.name, items |-> <<>>]
    ELSE [tag |-> IF self.kind = "AssetAny" THEN "any" ELSE "all", val |-> "",
          items |-> [i \in 1..Len(self.objects) |-> as_expression(self.objects[i])]]

(***************************************************************************)
(* Strings the code parses: sequences of one-character strings over the    *)
(* printable ASCII characters.                                             *)
(***************************************************************************)
\* the characters U+0020 .. U+007E, in code point order; the double quote,
\* the backslash and the backtick are spelled out
Ascii ==
    <<" ", "!", "DQUOTE", "#", "$", "%", "&", "'", "(", ")", "*", "+">>
    \o <<",", "-", ".", "/", "0", "1", "2", "3", "4", "5", "6", "7">>
    \o <<"8", "9", ":", ";", "<", "=", ">", "?", "@", "A", "B", "C">>
    \o <<"D", "E", "F", "G", "H", "I", "J", "K", "L", "M", "N", "O">>
    \o <<"P", "Q", "R", "S", "T", "U", "V", "W", "X", "Y", "Z", "[">>
    \o <<"BACKSLASH", "]", "^", "_", "BACKTICK", "a", "b", "c", "d", "e", "f", "g">>
    \o <<"h", "i", "j", "k", "l", "m", "n", "o", "p", "q", "r", "s">>
    \o <<"t", "u", "v", "w", "x", "y", "z", "{", "|", "}", "~">>

AsciiSet == {Ascii[i] : i \in 1..Len(Ascii)}

\* ord(c)
CodePoint == [c \in AsciiSet |-> 31 + CHOOSE i \in 1..Len(Ascii) : Ascii[i] = c]

\* chr(n), for the code points of the alphabet
Chr(n) == Ascii[n - 31]

IsUpper(c) == CodePoint[c] \in 65..90
IsAlpha(c) == CodePoint[c] \in (65..90) \cup (97..122)
IsDigit(c) == CodePoint[c] \in 48..57

\* str.lower()
LowerChar(c) == IF IsUpper(c) THEN Chr(CodePoint[c] + 32) ELSE c
Lower(s) == [i \in 1..Len(s) |-> LowerChar(s[i])]

\* s[i:] with i counted from 1
From(s, i) == SubSeq(s, i, Len(s))

\* s.startswith(prefix)
StartsWith(s, prefix) ==
    Len(s) >= Len(prefix) /\ SubSeq(s, 1, Len(prefix)) = prefix

\* the first position of a character of set cs in s at or after i, 0 if none
RECURSIVE FindFrom(_, _, _)
FindFrom(s, cs, i) ==
    IF i > Len(s) THEN 0
    ELSE IF s[i] \in cs THEN i
    ELSE FindFrom(s, cs, i + 1)

\* the last position of character c in s, 0 if none
RECURSIVE RFind(_, _, _)
RFind(s, c, i) ==
    IF i = 0 THEN 0
    ELSE IF s[i] = c THEN i
    ELSE RFind(s, c, i - 1)

\* s.split(c): the pieces of s between the occurrences of c
RECURSIVE Split(_, _)
Split(s, c) ==
    LET i == FindFrom(s, {c}, 1) IN
    IF i = 0 THEN <<s>>
    ELSE <<SubSeq(s, 1, i - 1)>> \o Split(From(s, i + 1), c)

\* s.lstrip(" "): urlsplit strips leading spaces and C0 control characters;
\* the alphabet holds no control characters
RECURSIVE LStrip(_)
LStrip(s) == IF s # <<>> /\ s[1] = " " THEN LStrip(Tail(s)) ELSE s

\* s.rstrip("/")
RECURSIVE RStripSlash(_)
RStripSlash(s) ==
    IF s # <<>> /\ s[Len(s)] = "/" THEN RStripSlash(SubSeq(s, 1, Len(s) - 1)) ELSE s

\* urllib.parse.scheme_chars
SchemeChars == {c \in AsciiSet : IsAlpha(c) \/ IsDigit(c)} \cup {"+", "-", "."}

\* urllib.parse.uses_netloc, the schemes of it a raw uri of the model can have
UsesNetloc == {<<"h", "t", "t", "p">>, <<"f", "i", "l", "e">>}

\* s cut at position i: what precedes it and what follows it; i = 0 cuts
\* after the end
CutAt(s, i) ==
    IF i = 0 THEN [head |-> s, tail |-> <<>>]
    ELSE [head |-> SubSeq(s, 1, i - 1), tail |-> From(s, i + 1)]

\* s.partition(c) without the separator
Partition(s, c) == CutAt(s, FindFrom(s, {c}, 1))

\* urlsplit: url[:i] is a scheme when it starts with a letter and holds
\* scheme characters only
SplitScheme(url, i) ==
    IF i > 1 /\ IsAlpha(url[1]) /\ \A k \in 1..(i - 1) : url[k] \in SchemeChars
    THEN [scheme |-> Lower(SubSeq(url, 1, i - 1)), rest |-> From(url, i + 1)]
    ELSE [scheme |-> <<>>, rest |-> url]

\* urllib.parse._splitnetloc(url, 2), delim the position of the first of
\* "/", "?", "#" at or after 3 (0 if none)
SplitNetloc(url, delim) ==
    IF ~StartsWith(url, <<"/", "/">>) THEN [netloc |-> <<>>, rest |-> url]
    ELSE IF delim = 0 THEN [netloc |-> From(url, 3), rest |-> <<>>]
    ELSE [netloc |-> SubSeq(url, 3, delim - 1), rest |-> From(url, delim)]

\* urlsplit: the SplitResult, pq the path and query, fragment what followed "#"
SplitResult(scheme, netloc, pq, fragment) ==
    [scheme |-> scheme, netloc |-> netloc, path |-> pq.head,
     query |-> pq.tail, fragment |-> fragment]

\* urlsplit after the netloc: f is the rest cut at "#"
SplitQuery(scheme, netloc, f) ==
    SplitResult(scheme, netloc, Partition(f.head, "?"), f.tail)

\* urlsplit after the scheme: s is [scheme, rest]
SplitAfterNetloc(scheme, n) == SplitQuery(scheme, n.netloc, Partition(n.rest, "#"))
SplitAfterScheme(s) ==
    SplitAfterNetloc(s.scheme,
                     SplitNetloc(s.rest, FindFrom(s.rest, {"/", "?", "#"}, 3)))

\* urllib.parse.urlsplit(url)
urlsplit(url) ==
    SplitAfterScheme(SplitScheme(LStrip(url), FindFrom(LStrip(url), {":"}, 1)))

\* the tail of urlunsplit: scheme, query and fragment put around url
WithSchemeQueryFragment(parts, url) ==
    LET u1 == IF parts.scheme # <<>> THEN parts.scheme \o <<":">> \o url ELSE url
        u2 == IF parts.query # <<>> THEN u1 \o <<"?">> \o parts.query ELSE u1
    IN IF parts.fragment # <<>> THEN u2 \o <<"#">> \o parts.fragment ELSE u2

\* urllib.parse.urlunsplit(parts) up to Python 3.12.3: a path starting with
\* "//" under an empty netloc is written as it is
urlunsplit_legacy(parts) ==
    LET url == parts.path
        slashed == IF url # <<>> /\ url[1] # "/" THEN <<"/">> \o url ELSE url
    IN WithSchemeQueryFragment(parts,
           IF \/ parts.netloc # <<>>
              \/ (/\ parts.scheme # <<>>
                  /\ parts.scheme \in UsesNetloc
                  /\ ~StartsWith(url, <<"/", "/">>))
           THEN <<"/", "/">> \o parts.netloc \o slashed
           ELSE url)

\* urllib.parse.urlunsplit(parts) from Python 3.12.4: a path starting with
\* "//" under an empty netloc gets an empty authority written before it
urlunsplit_fixed(parts) ==
    LET url == parts.path
        slashed == IF url # <<>> /\ url[1] # "/" THEN <<"/">> \o url ELSE url
    IN WithSchemeQueryFragment(parts,
           IF parts.netloc # <<>> THEN <<"/", "/">> \o parts.netloc \o slashed
           ELSE IF StartsWith(url, <<"/", "/">>) THEN <<"/", "/">> \o url
           ELSE IF /\ parts.scheme # <<>>
                   /\ parts.scheme \in UsesNetloc
                   /\ (url = <<>> \/ url[1] = "/")
                THEN <<"/", "/">> \o url
           ELSE url)

\* urllib.parse.urlunsplit(parts), as the interpreter running the code has it
urlunsplit(parts) ==
    IF py = "fixed" THEN urlunsplit_fixed(parts) ELSE urlunsplit_legacy(parts)

HexDigits == <<"0", "1", "2", "3", "4", "5", "6", "7", "8", "9",
               "A", "B", "C", "D", "E", "F">>

\* int(c, 16), or 16 when c is no hex digit
HexValue(c) ==
    LET u == IF CodePoint[c] \in 97..102 THEN Chr(CodePoint[c] - 32) ELSE c IN
    IF \E i \in 1..16 : HexDigits[i] = u
    THEN (CHOOSE i \in 1..16 : HexDigits[i] = u) - 1
    ELSE 16

\* a character that percent-decoding yields outside the printable ASCII set
Unprintable == "UNPRINTABLE"

\* urllib.parse.unquote(s): %XX becomes the character XX encodes
RECURSIVE unquote(_)
unquote(s) ==
    IF s = <<>> THEN <<>>
    ELSE IF /\ s[1] = "%" /\ Len(s) >= 3
            /\ HexValue(s[2]) < 16 /\ HexValue(s[3]) < 16
         THEN LET n == 16 * HexValue(s[2]) + HexValue(s[3]) IN
              <<IF n \in 32..126 THEN Chr(n) ELSE Unprintable>> \o unquote(From(s, 4))
    ELSE <<s[1]>> \o unquote(Tail(s))

\* s.replace("+", " ")
PlusToSpace(s) == [i \in 1..Len(s) |-> IF s[i] = "+" THEN " " ELSE s[i]]

\* the loop of urllib.parse.parse_qsl over the pieces nvs[i..]: a piece
\* without "=" or with an empty value is dropped
RECURSIVE parse_qsl_from(_, _)
parse_qsl_from(nvs, i) ==
    IF i > Len(nvs) THEN <<>>
    ELSE LET e == FindFrom(nvs[i], {"="}, 1) IN
         IF nvs[i] = <<>> \/ e = 0 \/ e = Len(nvs[i])
         THEN parse_qsl_from(nvs, i + 1)
         ELSE <<[key |-> unquote(PlusToSpace(SubSeq(nvs[i], 1, e - 1))),
                 value |-> unquote(PlusToSpace(From(nvs[i], e + 1)))]>>
              \o parse_qsl_from(nvs, i + 1)

\* urllib.parse.parse_qsl(qs)
parse_qsl(qs) == parse_qsl_from(Split(qs, "&"), 1)

\* s < t for Python strings: by code point, a proper prefix first
RECURSIVE StrLess(_, _)
StrLess(s, t) ==
    IF t = <<>> THEN FALSE
    ELSE IF s = <<>> THEN TRUE
    ELSE IF s[1] # t[1] THEN CodePoint[s[1]] < CodePoint[t[1]]
    ELSE StrLess(Tail(s), Tail(t))

\* p < q for (key, value) tuples
PairLess(p, q) ==
    \/ StrLess(p.key, q.key)
    \/ p.key = q.key /\ StrLess(p.value, q.value)

\* p put into the sorted list ps, after the pairs not greater than it
RECURSIVE Insert(_, _)
Insert(p, ps) ==
    IF ps = <<>> THEN <<p>>
    ELSE IF PairLess(p, ps[1]) THEN <<p>> \o ps
    ELSE <<ps[1]>> \o Insert(p, Tail(ps))

\* sorted(pairs)
RECURSIVE sorted(_)
sorted(pairs) ==
    IF pairs = <<>> THEN <<>>
    ELSE Insert(pairs[Len(pairs)], sorted(SubSeq(pairs, 1, Len(pairs) - 1)))

\* urllib.parse.quote_plus(s): a space becomes "+", the unreserved characters
\* stay, any other becomes %XX
RECURSIVE quote_plus(_)
quote_plus(s) ==
    IF s = <<>> THEN <<>>
    ELSE LET c == s[1] IN
         (IF c = " " THEN <<"+">>
          ELSE IF IsAlpha(c) \/ IsDigit(c) \/ c \in {"_", ".", "-", "~"} THEN <<c>>
          ELSE <<"%", HexDigits[(CodePoint[c] \div 16) + 1],
                 HexDigits[(CodePoint[c] % 16) + 1]>>)
         \o quote_plus(Tail(s))

\* urllib.parse.urlencode(pairs)
RECURSIVE urlencode(_)
urlencode(pairs) ==
    IF pairs = <<>> THEN <<>>
    ELSE quote_plus(pairs[1].key) \o <<"=">> \o quote_plus(pairs[1].value)
         \o (IF Len(pairs) > 1 THEN <<"&">> \o urlencode(Tail(pairs)) ELSE <<>>)

(***************************************************************************)
(* The URI sanitizer and Asset construction.                               *)
(***************************************************************************)
\* normalize_noop
normalize_noop(parts) == parts

\* _get_uri_normalizer(scheme): with no provider installed the registry of
\* ProvidersManager is empty; FALSE stands for None
HasNormalizer(scheme) == scheme = <<"f", "i", "l", "e">>

\* _get_normalized_scheme(uri)
get_normalized_scheme(uri) == Lower(urlsplit(uri).scheme)

\* the reserved-scheme test never holding
NeverReserved(scheme) == FALSE

\* normalized_scheme == "airflow"
IsReserved(scheme) == scheme = <<"a", "i", "r", "f", "l", "o", "w">>

\* the query re-encoded without sorting its pairs
UnsortedQuery(query) ==
    IF query # <<>> THEN urlencode(parse_qsl(query)) ELSE <<>>

\* normalized_query
NormalizedQuery(query) ==
    IF query # <<>> THEN urlencode(sorted(parse_qsl(query))) ELSE <<>>

\* parsed.netloc.rpartition("@")[2]
NormalizedNetloc(netloc) == From(netloc, RFind(netloc, "@", Len(netloc)) + 1)

\* parsed.path.rstrip("/") or "/"
NormalizedPath(path) ==
    IF RStripSlash(path) = <<>> THEN <<"/">> ELSE RStripSlash(path)

Returned(s) == [err |-> "", val |-> s]
Raised(e) == [err |-> e, val |-> <<>>]

\* parsed._replace(scheme=..., netloc=..., path=..., query=..., fragment="")
Replaced(parsed, normalized_scheme) ==
    [scheme |-> normalized_scheme,
     netloc |-> NormalizedNetloc(parsed.netloc),
     path |-> NormalizedPath(parsed.path),
     query |-> NormalizedQuery(parsed.query),
     fragment |-> <<>>]

\* the normalizer registered for the scheme, when there is one, applied
Normalized(parts) ==
    IF HasNormalizer(parts.scheme) THEN normalize_noop(parts) ELSE parts

\* the body of _sanitize_uri after  parsed = urlsplit(uri)  and
\* normalized_scheme = _get_normalized_scheme(uri)
SanitizeParsed(uri, parsed, normalized_scheme) ==
    IF parsed.scheme = <<>> /\ parsed.netloc = <<>> THEN Returned(uri)
    ELSE IF normalized_scheme = <<>> THEN Returned(uri)
    ELSE IF StartsWith(normalized_scheme, <<"x", "-">>) THEN Returned(uri)
    ELSE IF IsReserved(normalized_scheme)
         THEN Raised("ValueError: Asset scheme 'airflow' is reserved")
    ELSE Returned(urlunsplit(Normalized(Replaced(parsed, normalized_scheme))))

\* _sanitize_uri(uri): the string returned, or the ValueError raised
sanitize_uri(uri) ==
    SanitizeParsed(uri, urlsplit(uri), get_normalized_scheme(uri))

\* the longest identifier _validate_identifier accepts
MaxIdentifier == 1500

\* _validate_non_empty_identifier(value): the error raised, "" if none;
\* every character of the alphabet is ASCII
validate_non_empty_identifier(value) ==
    IF Len(value) > MaxIdentifier THEN "ValueError: cannot exceed 1500 characters"
    ELSE IF value # <<>> /\ \A i \in 1..Len(value) : value[i] = " "
         THEN "ValueError: cannot be just whitespace"
    ELSE IF \E i \in 1..Len(value) : value[i] \notin AsciiSet
         THEN "ValueError: must only consist of ASCII characters"
    ELSE IF value = <<>> THEN "ValueError: cannot be empty"
    ELSE ""

\* Asset.__init__ once _validate_non_empty_identifier (error invalid, "" if
\* none) and _sanitize_uri (result sanitized) have run on uri
AssetValidated(uri, invalid, sanitized) ==
    IF invalid # "" THEN [err |-> invalid, obj |-> NoObject]
    ELSE IF sanitized.err # "" THEN [err |-> sanitized.err, obj |-> NoObject]
    ELSE [err |-> "", obj |-> Asset(uri, sanitized.val)]

\* Asset(uri=uri): the name defaults to the uri; the object, or the error
AssetInit(uri) ==
    AssetValidated(uri, validate_non_empty_identifier(uri), sanitize_uri(uri))

(***************************************************************************)
(* The condition algebra as a state machine.                               *)
(***************************************************************************)
AssetA == Asset("a", "s3://bucket/a")
AssetA2 == Asset("a2", "s3://bucket/a")
AssetB == Asset("b", "s3://bucket/b")
Assets == {AssetA, AssetA2, AssetB}
Uris == {x.uri : x \in Assets}
AliasNames == {"al"}
Leaves == Assets \cup {AssetAlias(n) : n \in AliasNames}

\* what the table may hold for an alias
Rows == {NoRow, <<AssetA2>>, <<AssetB, AssetA>>}

\* the statuses maps a caller may pass: any map from some of the uris
StatusMaps == UNION {[d -> BOOLEAN] : d \in SUBSET Uris}

Sources == {"", "S"}
Targets == {"", "T"}

BuildOps == {"AssetAny", "AssetAll", "or", "and"}
QueryOps == {"evaluate", "iter_assets", "iter_asset_aliases",
             "iter_dag_dependencies", "as_expression"}

NoInput == [statuses |-> <<>>, source |-> "", target |-> ""]
NoOutput == [err |-> "", val |-> <<>>]

\* an uncaught TypeError or NotImplementedError ends the program
Running == out.err = ""

\* the objects the program can name: two assets, an alias, a non-asset
\* value, and the condition it holds
Operands ==
    {AssetA, AssetB} \cup {AssetAlias(n) : n \in AliasNames} \cup {NotAnAsset}
    \cup (IF cur = NoObject THEN {} ELSE {cur})

\* the constructors are called with no, one or two arguments; longer
\* argument lists come from the operators splicing self.objects
ArgLists ==
    {<<>>} \cup {<<x>> : x \in Operands} \cup {<<x, y>> : x \in Operands, y \in Operands}

\* the program grows one condition: once it holds one, each further
\* constructor or operator call has it among its operands; r is what the
\* call returns and bound the largest tree built
Grows(operands, r, bound) ==
    /\ cur = NoObject \/ \E i \in 1..Len(operands) : operands[i] = cur
    /\ r.err = "" => Size(r.obj) <= bound

\* no call made yet
NoResult == [err |-> "unset", val |-> <<>>]
NoRaw == [scheme |-> <<>>, authority |-> <<>>, path |-> <<>>, pairs |-> <<>>,
          fragment |-> <<>>]

InitUri ==
    /\ raw = NoRaw
    /\ py = "legacy"
    /\ stage = "none"
    /\ canon = NoResult
    /\ twin = [perm |-> <<>>, res |-> NoResult]
    /\ again = NoResult
    /\ asset = [err |-> "unset", obj |-> NoObject]

Init ==
    /\ catalog \in [AliasNames -> Rows]
    /\ resolveLog = <<>>
    /\ cur = NoObject
    /\ op = "init"
    /\ args = <<>>
    /\ recv = NoObject
    /\ inp = NoInput
    /\ out = NoOutput
    /\ InitUri

\* the effect of a constructor or operator call that returned r
Built(name, operands, r) ==
    /\ Running
    /\ cur' = IF r.err = "" THEN r.obj ELSE cur
    /\ resolveLog' = resolveLog \o r.calls
    /\ op' = name
    /\ args' = operands
    /\ out' = [err |-> r.err, val |-> <<>>]
    /\ recv' = NoObject
    /\ inp' = NoInput
    /\ UNCHANGED <<catalog, raw, py, stage, canon, twin, again, asset>>

\* AssetAny(*objects)
NewAssetAny(objects) == Built("AssetAny", objects, ConditionInit("AssetAny", objects))

\* AssetAll(*objects)
NewAssetAll(objects) == Built("AssetAll", objects, ConditionInit("AssetAll", objects))

\* self | other
OrOp(self, other) == Built("or", <<self, other>>, Or(self, other))

\* self & other
AndOp(self, other) == Built("and", <<self, other>>, And(self, other))

\* the effect of a query on receiver self with input i returning o
Queried(name, self, i, o) ==
    /\ Running
    /\ op' = name
    /\ recv' = self
    /\ inp' = i
    /\ out' = o
    /\ args' = <<>>
    /\ UNCHANGED <<catalog, resolveLog, cur, raw, py, stage, canon, twin, again, asset>>

\* BaseAsset.evaluate and BaseAsset.as_expression, which AssetAlias inherits
NotImplementedError == [err |-> "NotImplementedError", val |-> <<>>]

Evaluate(self, statuses) ==
    Queried("evaluate", self, [NoInput EXCEPT !.statuses = statuses],
            IF self.kind = "AssetAlias" THEN NotImplementedError
            ELSE [err |-> "", val |-> evaluate(self, statuses)])

IterAssets(self) ==
    Queried("iter_assets", self, NoInput, [err |-> "", val |-> iter_assets(self)])

IterAssetAliases(self) ==
    Queried("iter_asset_aliases", self, NoInput,
            [err |-> "", val |-> iter_asset_aliases(self)])

IterDagDependencies(self, source, target) ==
    Queried("iter_dag_dependencies", self,
            [NoInput EXCEPT !.source = source, !.target = target],
            [err |-> "", val |-> iter_dag_dependencies(self, source, target)])

AsExpression(self) ==
    Queried("as_expression", self, NoInput,
            IF self.kind = "AssetAlias" THEN NotImplementedError
            ELSE [err |-> "", val |-> as_expression(self)])

\* the table changes underneath the program
CatalogChange(name, row) ==
    /\ Running
    /\ row # catalog[name]
    /\ catalog' = [catalog EXCEPT ![name] = row]
    /\ op' = "catalog"
    /\ args' = <<>>
    /\ out' = NoOutput
    /\ recv' = NoObject
    /\ inp' = NoInput
    /\ UNCHANGED <<resolveLog, cur, raw, py, stage, canon, twin, again, asset>>

\* the inputs the queries are given while the condition is being built
AllTrue == [u \in Uris |-> TRUE]
NoStatuses == [u \in {} |-> TRUE]

Next ==
    \/ \E objects \in ArgLists :
           /\ Grows(objects, ConditionInit("AssetAny", objects), MaxSize)
           /\ NewAssetAny(objects)
    \/ \E objects \in ArgLists :
           /\ Grows(objects, ConditionInit("AssetAll", objects), MaxSize)
           /\ NewAssetAll(objects)
    \/ \E self \in Operands \ {NotAnAsset}, other \in Operands :
           /\ Grows(<<self, other>>, Or(self, other), MaxSize)
           /\ OrOp(self, other)
    \/ \E self \in Operands \ {NotAnAsset}, other \in Operands :
           /\ Grows(<<self, other>>, And(self, other), MaxSize)
           /\ AndOp(self, other)
    \/ \E statuses \in {AllTrue, NoStatuses} : cur # NoObject /\ Evaluate(cur, statuses)
    \/ cur # NoObject /\ IterAssets(cur)
    \/ cur # NoObject /\ IterAssetAliases(cur)
    \/ cur # NoObject /\ IterDagDependencies(cur, "S", "")
    \/ cur # NoObject /\ AsExpression(cur)
    \/ \E name \in AliasNames, row \in Rows : CatalogChange(name, row)

Spec == Init /\ [][Next]_vars

(***************************************************************************)
(* SpecOps: the | and & operators over assets and the conditions they      *)
(* return.                                                                 *)
(***************************************************************************)
AssetOperands == Assets \cup (IF cur = NoObject THEN {} ELSE {cur})

NextOps ==
    \/ \E self \in AssetOperands, other \in AssetOperands :
           /\ Grows(<<self, other>>, Or(self, other), MaxNest)
           /\ OrOp(self, other)
    \/ \E self \in AssetOperands, other \in AssetOperands :
           /\ Grows(<<self, other>>, And(self, other), MaxNest)
           /\ AndOp(self, other)

SpecOps == Init /\ [][NextOps]_vars

(***************************************************************************)
(* SpecQuery: the queries sent to an object the program holds: a leaf, a   *)
(* condition it has built, or an alias condition stored in one.            *)
(***************************************************************************)
\* the objects of at most n objects that constructor calls return under the
\* table as it is, and the leaves they are built from
RECURSIVE Trees(_)
RECURSIVE ArgsWithin(_)
Trees(n) ==
    IF n = 0 THEN {}
    ELSE Leaves \cup
         {t \in {ConditionInit(kind, objects).obj :
                    kind \in {"AssetAny", "AssetAll"}, objects \in ArgsWithin(n - 1)} :
             Size(t) <= n}
\* the argument lists whose arguments hold at most m objects together
ArgsWithin(m) ==
    {<<>>} \cup
    UNION {{<<t>> \o rest : rest \in ArgsWithin(m - Size(t))} : t \in Trees(m)}

\* the resolver calls that building t made: one per stored alias condition
RECURSIVE ResolvedFor(_)
RECURSIVE ResolvedForFrom(_, _)
ResolvedFor(t) ==
    IF t.kind = "_AssetAliasCondition" THEN <<t.name>>
    ELSE IF t.kind \in {"AssetAny", "AssetAll"} THEN ResolvedForFrom(t.objects, 1)
    ELSE <<>>
ResolvedForFrom(objects, i) ==
    IF i > Len(objects) THEN <<>>
    ELSE ResolvedFor(objects[i]) \o ResolvedForFrom(objects, i + 1)

InitQuery ==
    /\ catalog \in [AliasNames -> Rows]
    /\ cur \in Trees(MaxTree) \cup {AssetAliasCondition(n) : n \in AliasNames}
    /\ resolveLog = ResolvedFor(cur)
    /\ op = "init"
    /\ args = <<>>
    /\ recv = NoObject
    /\ inp = NoInput
    /\ out = NoOutput
    /\ InitUri

NextQuery ==
    \/ \E statuses \in StatusMaps : Evaluate(cur, statuses)
    \/ IterAssets(cur)
    \/ IterAssetAliases(cur)
    \/ \E source \in Sources, target \in Targets : IterDagDependencies(cur, source, target)
    \/ AsExpression(cur)

SpecQuery == InitQuery /\ [][NextQuery]_vars

(***************************************************************************)
(* Claims about the condition algebra.                                     *)
(***************************************************************************)
IsAsset(o) == o.kind = "Asset"

\* the operands of the last operator call are a condition over two assets
\* and an asset: (A op B) op C
LeftNested(kind) ==
    /\ args[1].kind = kind /\ Len(args[1].objects) = 2
    /\ IsAsset(args[1].objects[1]) /\ IsAsset(args[1].objects[2])
    /\ IsAsset(args[2])

\* the operands of the last operator call are an asset and a condition over
\* two assets: A op (B op C)
RightNested(kind) ==
    /\ IsAsset(args[1])
    /\ args[2].kind = kind /\ Len(args[2].objects) = 2
    /\ IsAsset(args[2].objects[1]) /\ IsAsset(args[2].objects[2])

\* C1 (as claimed): for assets A, B, C, both (A | B) | C and A | (B | C)
\* return an AssetAny whose objects are exactly [A, B, C], and both
\* (A & B) & C and A & (B & C) an AssetAll whose objects are exactly [A, B, C].
C1Flattening ==
    /\ (op = "or" /\ LeftNested("AssetAny")) =>
           (cur.kind = "AssetAny" /\ cur.objects = args[1].objects \o <<args[2]>>)
    /\ (op = "or" /\ RightNested("AssetAny")) =>
           (cur.kind = "AssetAny" /\ cur.objects = <<args[1]>> \o args[2].objects)
    /\ (op = "and" /\ LeftNested("AssetAll")) =>
           (cur.kind = "AssetAll" /\ cur.objects = args[1].objects \o <<args[2]>>)
    /\ (op = "and" /\ RightNested("AssetAll")) =>
           (cur.kind = "AssetAll" /\ cur.objects = <<args[1]>> \o args[2].objects)

\* C1 (what the code does): (A | B) | C returns an AssetAny whose objects are
\* exactly [A, B, C] and (A & B) & C an AssetAll whose objects are exactly
\* [A, B, C]; A | (B | C) returns an AssetAny whose objects are [A, (B | C)],
\* the right operand stored as one nested child, and likewise A & (B & C).
C1LeftFlattening ==
    /\ (op = "or" /\ LeftNested("AssetAny")) =>
           (cur.kind = "AssetAny" /\ cur.objects = args[1].objects \o <<args[2]>>)
    /\ (op = "and" /\ LeftNested("AssetAll")) =>
           (cur.kind = "AssetAll" /\ cur.objects = args[1].objects \o <<args[2]>>)
    /\ (op = "or" /\ RightNested("AssetAny")) =>
           (cur.kind = "AssetAny" /\ cur.objects = <<args[1], args[2]>>)
    /\ (op = "and" /\ RightNested("AssetAll")) =>
           (cur.kind = "AssetAll" /\ cur.objects = <<args[1], args[2]>>)

\* the last query went to an alias condition
OnAliasCondition(name) == op = name /\ recv.kind = "_AssetAliasCondition"

\* the edges of e of the given dependency_type, in order
EdgesOfType(e, type) == SelectSeq(e, LAMBDA d : d.dependency_type = type)

\* C2 (as claimed): an alias condition with N >= 1 resolved assets, asked for
\* its dag dependencies with source "S" and no target, yields 2N edges: N of
\* type asset from "asset-alias:{name}" to "asset" carrying the resolved uris,
\* and N of type asset-alias from "S" to "S" carrying the alias name.
C2EdgesTargetIsSource ==
    (/\ OnAliasCondition("iter_dag_dependencies")
     /\ recv.objects # <<>> /\ inp.source = "S" /\ inp.target = "") =>
        LET n == Len(recv.objects)
            assetEdges == EdgesOfType(out.val, "asset")
            aliasEdges == EdgesOfType(out.val, "asset-alias")
        IN /\ Len(out.val) = 2 * n
           /\ assetEdges = [i \in 1..n |->
                  DagDependency("asset-alias:" \o recv.name, "asset", "asset",
                                recv.objects[i].uri)]
           /\ aliasEdges = [i \in 1..n |->
                  DagDependency("S", "S", "asset-alias", recv.name)]

\* C2 (amended): an alias condition with N >= 1 resolved assets, asked for
\* its dag dependencies with source "S" and no target, yields 2N edges: N of
\* type asset from "asset-alias:{name}" to "asset" carrying the resolved uris,
\* and N of type asset-alias carrying the alias name, from "S" to
\* "asset:{uri}" of the resolved asset each stands for.
C2EdgesTargetIsAsset ==
    (/\ OnAliasCondition("iter_dag_dependencies")
     /\ recv.objects # <<>> /\ inp.source = "S" /\ inp.target = "") =>
        LET n == Len(recv.objects)
            assetEdges == EdgesOfType(out.val, "asset")
            aliasEdges == EdgesOfType(out.val, "asset-alias")
        IN /\ Len(out.val) = 2 * n
           /\ assetEdges = [i \in 1..n |->
                  DagDependency("asset-alias:" \o recv.name, "asset", "asset",
                                recv.objects[i].uri)]
           /\ aliasEdges = [i \in 1..n |->
                  DagDependency("S", "asset:" \o recv.objects[i].uri,
                                "asset-alias", recv.name)]

\* an alias condition with two resolved assets was asked with source "S"
C2Witness ==
    /\ OnAliasCondition("iter_dag_dependencies")
    /\ Len(recv.objects) = 2 /\ inp.source = "S" /\ inp.target = ""
    /\ Len(out.val) = 4

\* C3: an alias condition without resolved assets, asked for its dag
\* dependencies with no source and no target, yields exactly one edge, of
\* type asset-alias, from "asset-alias" to "asset-alias", carrying the alias
\* name; no edge of type asset.
C3UnresolvedAliasEdge ==
    (/\ OnAliasCondition("iter_dag_dependencies")
     /\ recv.objects = <<>> /\ inp.source = "" /\ inp.target = "") =>
        out.val = <<DagDependency("asset-alias", "asset-alias", "asset-alias", recv.name)>>

C3Witness ==
    /\ OnAliasCondition("iter_dag_dependencies")
    /\ recv.objects = <<>> /\ inp.source = "" /\ inp.target = ""
    /\ Len(out.val) = 1

\* what a condition is worth under statuses: an asset its status, false when
\* it has none; an AssetAny or alias condition the disjunction and an
\* AssetAll the conjunction of what its stored objects are worth
RECURSIVE Holds(_, _)
Holds(t, statuses) ==
    IF t.kind = "Asset" THEN t.uri \in DOMAIN statuses /\ statuses[t.uri]
    ELSE IF t.kind = "AssetAll"
         THEN \A i \in 1..Len(t.objects) : Holds(t.objects[i], statuses)
    ELSE \E i \in 1..Len(t.objects) : Holds(t.objects[i], statuses)

RECURSIVE Walk(_)
RECURSIVE WalkFrom(_, _)
Walk(t) ==
    IF t.kind = "Asset" THEN <<[k |-> t.uri, v |-> t]>>
    ELSE WalkFrom(t.objects, 1)
WalkFrom(objects, i) ==
    IF i > Len(objects) THEN <<>>
    ELSE Walk(objects[i]) \o WalkFrom(objects, i + 1)

\* the entries of w that are the first with their uri, in order
RECURSIVE FirstOccurrencesFrom(_, _)
FirstOccurrencesFrom(w, i) ==
    IF i > Len(w) THEN <<>>
    ELSE IF \E j \in 1..(i - 1) : w[j].k = w[i].k
         THEN FirstOccurrencesFrom(w, i + 1)
         ELSE <<w[i]>> \o FirstOccurrencesFrom(w, i + 1)

IsComposite(o) == o.kind \in {"AssetAny", "AssetAll", "_AssetAliasCondition"}

\* C6: iter_assets on a composite yields each distinct uri exactly once, with
\* the Asset instance met first in a depth-first, left-to-right walk of the
\* stored children, in the order of those first occurrences.
C6DedupFirst ==
    (op = "iter_assets" /\ IsComposite(recv)) =>
        /\ out.val = FirstOccurrencesFrom(Walk(recv), 1)
        /\ \A i, j \in 1..Len(out.val) : out.val[i].k = out.val[j].k => i = j
        /\ {out.val[i].k : i \in 1..Len(out.val)}
               = {Walk(recv)[i].k : i \in 1..Len(Walk(recv))}

\* AssetAny(A, A2, B) with A and A2 of one uri yielded [(A.uri, A), (B.uri, B)]
C6Witness ==
    /\ op = "iter_assets" /\ recv.kind = "AssetAny"
    /\ recv.objects = <<AssetA, AssetA2, AssetB>>
    /\ out.val = <<[k |-> AssetA.uri, v |-> AssetA], [k |-> AssetB.uri, v |-> AssetB]>>

\* the AssetAlias objects among the operands
NumAliases(operands) == Len(AliasNamesFrom(operands, 1))

\* C7: the resolver is called exactly once per AssetAlias argument, when the
\* composite is constructed from it: a successful constructor or operator
\* call adds one call per AssetAlias among its operands (none for the alias
\* conditions already stored in the composite it extends, which it keeps as
\* they are), and no query and no change of the catalog calls the resolver
\* or changes the composite.
C7ResolvedOnce ==
    [][ /\ (op' \in QueryOps \/ op' = "catalog") =>
               (resolveLog' = resolveLog /\ cur' = cur)
        /\ (op' \in BuildOps /\ out'.err = "") =>
               /\ Len(resolveLog') = Len(resolveLog) + NumAliases(args')
               /\ \A i \in 1..Len(args') :
                      args'[i].kind = "AssetAlias" =>
                          \E j \in 1..Len(cur'.objects) :
                              cur'.objects[j] = AssetAliasCondition(args'[i].name)
               /\ (op' = "or" /\ args'[1].kind = "AssetAny") =>
                      SubSeq(cur'.objects, 1, Len(args'[1].objects)) = args'[1].objects
               /\ (op' = "and" /\ args'[1].kind = "AssetAll") =>
                      SubSeq(cur'.objects, 1, Len(args'[1].objects)) = args'[1].objects
      ]_vars

\* a composite whose alias was resolved before the catalog changed has been
\* extended with |, and the resolver has been called once in all
C7Witness ==
    /\ op = "or" /\ out.err = "" /\ args[1].kind = "AssetAny"
    /\ Len(resolveLog) = 1
    /\ \E i \in 1..Len(args[1].objects) :
           /\ args[1].objects[i].kind = "_AssetAliasCondition"
           /\ args[1].objects[i] # AssetAliasCondition(args[1].objects[i].name)
           /\ cur.objects[i] = args[1].objects[i]

\* C10: a constructor call with an argument that is not a condition, or an
\* operator call with such a right operand, raises TypeError, calls the
\* resolver zero times and produces no composite.
C10FailFast ==
    [][ (op' \in BuildOps /\ \E i \in 1..Len(args') : ~IsBaseAsset(args'[i])) =>
            (out'.err = "TypeError" /\ resolveLog' = resolveLog /\ cur' = cur)
      ]_vars

\* a constructor call with an AssetAlias before the invalid argument failed
C10Witness ==
    /\ op \in {"AssetAny", "AssetAll"} /\ out.err = "TypeError"
    /\ Len(args) = 2 /\ args[1].kind = "AssetAlias" /\ ~IsBaseAsset(args[2])
    /\ resolveLog = <<>>

(***************************************************************************)
(* SpecUri: raw uri strings put together from parts, sanitized, sanitized  *)
(* again, made into an Asset, and sanitized with the query pairs in        *)
(* another order.                                                          *)
(***************************************************************************)
Schemes == {<<>>, <<"s", "3">>, <<"S", "3">>, <<"h", "t", "t", "p">>, <<"f", "i", "l", "e">>, <<"x", "-", "a">>, <<"a", "i", "r", "f", "l", "o", "w">>, <<"A", "I", "R", "F", "L", "O", "W">>}
Authorities == {<<>>, <<"/", "/", "h">>, <<"/", "/", "u", "@", "h">>, <<"/", "/", "u", "@">>}
Paths == {<<>>, <<"/", "p">>, <<"/", "p", "/", "/">>, <<"/", "/", "a">>}
Fragments == {<<>>, <<"#", "f">>}

\* the key=value pieces a raw query is made of: the text as written, and the
\* key and value it stands for
QueryPairs ==
    {[text |-> <<"b", "=", "2">>, key |-> <<"b">>, value |-> <<"2">>],
     [text |-> <<"a", "=", "%", "2", "1">>, key |-> <<"a">>, value |-> <<"!">>],
     [text |-> <<"a", "=", "+">>, key |-> <<"a">>, value |-> <<" ">>],
     [text |-> <<"c", "=">>, key |-> <<"c">>, value |-> <<>>]}

\* the texts of pairs[i..] joined with "&"
RECURSIVE JoinPairs(_, _)
JoinPairs(pairs, i) ==
    IF i > Len(pairs) THEN <<>>
    ELSE pairs[i].text
         \o (IF i < Len(pairs) THEN <<"&">> ELSE <<>>) \o JoinPairs(pairs, i + 1)

\* the raw uri string of parts r with its query pairs in the order perm
RawUri(r, perm) ==
    (IF r.scheme = <<>> THEN <<>> ELSE r.scheme \o <<":">>)
    \o r.authority \o r.path
    \o (IF r.pairs = <<>> THEN <<>>
        ELSE <<"?">> \o JoinPairs([i \in 1..Len(r.pairs) |-> r.pairs[perm[i]]], 1))
    \o r.fragment

\* the query pairs as written
Identity(n) == [i \in 1..n |-> i]
Written(r) == RawUri(r, Identity(Len(r.pairs)))

InitSanitize ==
    /\ catalog = [n \in AliasNames |-> NoRow]
    /\ resolveLog = <<>>
    /\ cur = NoObject
    /\ op = "init"
    /\ args = <<>>
    /\ recv = NoObject
    /\ inp = NoInput
    /\ out = NoOutput
    /\ raw \in {[scheme |-> s, authority |-> a, path |-> p, pairs |-> q, fragment |-> f] :
                   s \in Schemes, a \in Authorities, p \in Paths,
                   q \in UNION {[1..n -> QueryPairs] : n \in 0..MaxPairs},
                   f \in Fragments}
    /\ py \in {"legacy", "fixed"}
    /\ stage = "input"
    /\ canon = NoResult
    /\ twin = [perm |-> <<>>, res |-> NoResult]
    /\ again = NoResult
    /\ asset = [err |-> "unset", obj |-> NoObject]

\* canon = _sanitize_uri(raw)
Sanitize ==
    /\ stage = "input"
    /\ canon' = sanitize_uri(Written(raw))
    /\ stage' = "sanitized"
    /\ UNCHANGED <<catalog, resolveLog, cur, op, args, recv, inp, out,
                   raw, py, twin, again, asset>>

\* again = _sanitize_uri(canon)
Resanitize ==
    /\ stage = "sanitized"
    /\ canon.err = ""
    /\ again' = sanitize_uri(canon.val)
    /\ stage' = "resanitized"
    /\ UNCHANGED <<catalog, resolveLog, cur, op, args, recv, inp, out,
                   raw, py, canon, twin, asset>>

\* asset = Asset(uri=raw)
NewAsset ==
    /\ stage = "resanitized" \/ (stage = "sanitized" /\ canon.err # "")
    /\ asset' = AssetInit(Written(raw))
    /\ stage' = "constructed"
    /\ UNCHANGED <<catalog, resolveLog, cur, op, args, recv, inp, out,
                   raw, py, canon, twin, again>>

\* twin = _sanitize_uri(raw with its query pairs in the order perm)
SanitizeTwin(perm) ==
    /\ stage = "constructed"
    /\ twin' = [perm |-> perm, res |-> sanitize_uri(RawUri(raw, perm))]
    /\ stage' = "twin"
    /\ UNCHANGED <<catalog, resolveLog, cur, op, args, recv, inp, out,
                   raw, py, canon, again, asset>>

NextSanitize ==
    \/ Sanitize
    \/ Resanitize
    \/ NewAsset
    \/ \E perm \in Permutations(1..Len(raw.pairs)) : SanitizeTwin(perm)

SpecUri == InitSanitize /\ [][NextSanitize]_vars

(***************************************************************************)
(* Claims about the URI sanitizer.                                         *)
(***************************************************************************)
\* C4 (as claimed): _sanitize_uri(_sanitize_uri(u)) = _sanitize_uri(u)
\* whenever _sanitize_uri(u) returns, and the uri of every constructed Asset
\* is a fixed point of _sanitize_uri.
C4Idempotent ==
    /\ again # NoResult => again = canon
    /\ asset.err = "" => sanitize_uri(asset.obj.uri) = Returned(asset.obj.uri)

\* the scheme as written is the reserved word in some letter case
WrittenReserved == Lower(raw.scheme) = <<"a", "i", "r", "f", "l", "o", "w">>

ReservedError == "ValueError: Asset scheme 'airflow' is reserved"

\* C8: for a uri whose scheme lower-cased is airflow, _sanitize_uri raises
\* the reserved-scheme error and returns no string, and Asset(uri=...) raises
\* it too and yields no Asset.
C8ReservedScheme ==
    WrittenReserved =>
        /\ stage # "input" => canon = Raised(ReservedError)
        /\ stage \in {"constructed", "twin"} =>
               (asset.err = ReservedError /\ asset.obj = NoObject)
        /\ stage = "twin" => twin.res = Raised(ReservedError)

\* Asset(uri="AIRFLOW:...") has raised
C8Witness ==
    /\ raw.scheme = <<"A", "I", "R", "F", "L", "O", "W">>
    /\ stage = "constructed"
    /\ asset.err = ReservedError

\* the query of a sanitized uri: what follows its first "?"
QueryOf(uri) ==
    IF FindFrom(uri, {"?"}, 1) = 0 THEN <<>> ELSE From(uri, FindFrom(uri, {"?"}, 1) + 1)

\* the (key, value) pairs the written pairs stand for, those with an empty
\* value left out, as a bag
RECURSIVE MeantFrom(_, _)
MeantFrom(pairs, i) ==
    IF i > Len(pairs) THEN <<>>
    ELSE (IF pairs[i].value = <<>> THEN <<>>
          ELSE <<[key |-> pairs[i].key, value |-> pairs[i].value]>>)
         \o MeantFrom(pairs, i + 1)

Occurrences(ps, p) == Cardinality({i \in 1..Len(ps) : ps[i] = p})
SameBag(ps, qs) ==
    /\ Len(ps) = Len(qs)
    /\ \A i \in 1..Len(ps) : Occurrences(ps, ps[i]) = Occurrences(qs, ps[i])

\* the query of canon lists the pairs of raw in sorted order
SortedQuery ==
    LET listed == parse_qsl(QueryOf(canon.val)) IN
    /\ SameBag(listed, MeantFrom(raw.pairs, 1))
    /\ \A i \in 1..(Len(listed) - 1) : ~PairLess(listed[i + 1], listed[i])
    /\ QueryOf(canon.val) = urlencode(listed)

\* C9 (as claimed): two uris that differ only in the order of their query
\* pairs sanitize to the same string, whose query lists the pairs sorted.
C9AnyUri ==
    (stage = "twin" /\ canon.err = "") =>
        (twin.res = canon /\ SortedQuery)

\* the scheme as written is neither empty nor a custom x- scheme
WrittenNormalized ==
    raw.scheme # <<>> /\ ~StartsWith(Lower(raw.scheme), <<"x", "-">>)

\* C9 (amended): two uris with a scheme that is not an x- scheme, differing
\* only in the order of their query pairs, sanitize to the same string, whose
\* query lists the decoded pairs that have a value, sorted by (key, value).
C9NormalizedUri ==
    (stage = "twin" /\ canon.err = "" /\ WrittenNormalized) =>
        (twin.res = canon /\ SortedQuery)

\* "...?b=2&a=%21" and "...?a=%21&b=2" under a normalized scheme were sanitized
C9Witness ==
    /\ stage = "twin" /\ canon.err = "" /\ WrittenNormalized
    /\ Len(raw.pairs) = 2 /\ twin.perm = <<2, 1>>
    /\ raw.pairs[1].key = <<"b">> /\ raw.pairs[2].key = <<"a">>
    /\ twin.res = canon

====
